---- MODULE Spec2Model ----
(***************************************************************************)
(* Chichewa/English banking chatbot: the answer_query pipelines of         *)
(* ChichewaRAGChain (src/src/rag_chain.py) and StructuredPromptChain       *)
(* (src/src/spe_chain.py), the Translator (src/src/translator.py), the     *)
(* construction of the vector store (src/src/document_processor.py) and    *)
(* the Streamlit front end with its RateLimiter (src/app.py).              *)
(*                                                                         *)
(* Python strings are TLA+ strings; the hosted model, the embedding        *)
(* service and the vector store are the environment: every call to them    *)
(* either returns some content or raises.                                  *)
(***************************************************************************)
EXTENDS Integers, Sequences, FiniteSets, TLC

VARIABLES
    \* ---- one answer_query invocation (rag_chain.py / spe_chain.py) ----
    chain,              \* "rag" or "spe": the class whose answer_query runs
    pc,                 \* position inside answer_query
    user_query,         \* argument user_query
    return_metadata,    \* argument return_metadata (rag only)
    detected_language,  \* local detected_language
    english_query,      \* local english_query
    query_type,         \* local query_type
    query_intent,       \* local query_intent (spe only)
    product_key,        \* local product_key (spe only)
    structured_context, \* local structured_context (spe only)
    retrieved_docs,     \* local retrieved_docs (rag only)
    english_answer,     \* local english_answer (rag only)
    sources,            \* local sources (rag only)
    result,             \* the returned dict
    raised,             \* TRUE when an exception left answer_query
    calls,              \* the external calls of this invocation, in order
    \* ---- the Streamlit session (app.py) ----
    app_pc,             \* position of the script run
    has_rag_chain,      \* 'rag_chain' in st.session_state
    vectorstore_dir,    \* data/vectorstore exists on disk
    docs_dir,           \* data/docs/... exists and holds documents
    ctor_raised,        \* the exception that left ChichewaRAGChain(), or ""
    init_raised,        \* the exception that left initialize_session_state
    session_count,      \* rate_limiter_data['session_count']
    hourly_queries,     \* rate_limiter_data['hourly_queries']
    messages,           \* len(st.session_state.messages)
    now,                \* datetime.now(), in seconds
    limit_message,      \* the rate-limit message st.error shows, or ""
    invocations,        \* answer_query invocations since the last Clear Chat
    failed,             \* those of them that raised
    recorded,           \* timestamps of record_query since the last Clear Chat
    answered            \* timestamps of the record_query calls of the browser
                        \* session that are less than one window old

chainVars == <<chain, pc, user_query, return_metadata, detected_language,
               english_query, query_type, query_intent, product_key,
               structured_context, retrieved_docs, english_answer, sources,
               result, raised, calls>>

appVars == <<app_pc, has_rag_chain, vectorstore_dir, docs_dir, ctor_raised,
             init_raised,
             session_count, hourly_queries, messages, now, limit_message,
             invocations, failed, recorded, answered>>

vars == <<chainVars, appVars>>

-----------------------------------------------------------------------------
(* Python str methods used by the code *)

Whitespace == {" ", "\n", "\t"}

UpperCase == <<"A","B","C","D","E","F","G","H","I","J","K","L","M",
               "N","O","P","Q","R","S","T","U","V","W","X","Y","Z">>

LowerCase == <<"a","b","c","d","e","f","g","h","i","j","k","l","m",
               "n","o","p","q","r","s","t","u","v","w","x","y","z">>

CharAt(s, i) == SubSeq(s, i, i)

LowerChar(c) ==
    IF \E i \in 1..26 : UpperCase[i] = c
    THEN LowerCase[CHOOSE i \in 1..26 : UpperCase[i] = c]
    ELSE c

UpperChar(c) ==
    IF \E i \in 1..26 : LowerCase[i] = c
    THEN UpperCase[CHOOSE i \in 1..26 : LowerCase[i] = c]
    ELSE c

IsAlpha(c) == \E i \in 1..26 : UpperCase[i] = c \/ LowerCase[i] = c

RECURSIVE LowerFrom(_, _)
LowerFrom(s, i) ==
    IF i > Len(s) THEN "" ELSE LowerChar(CharAt(s, i)) \o LowerFrom(s, i + 1)

\* str.lower()
Lower(s) == LowerFrom(s, 1)

RECURSIVE LStripFrom(_, _)
LStripFrom(s, i) ==
    IF i > Len(s) THEN ""
    ELSE IF CharAt(s, i) \in Whitespace THEN LStripFrom(s, i + 1)
    ELSE SubSeq(s, i, Len(s))

RECURSIVE RStripTo(_, _)
RStripTo(s, j) ==
    IF j < 1 THEN ""
    ELSE IF CharAt(s, j) \in Whitespace THEN RStripTo(s, j - 1)
    ELSE SubSeq(s, 1, j)

\* str.strip()
Strip(s) == LET l == LStripFrom(s, 1) IN RStripTo(l, Len(l))

\* str.startswith(p)
StartsWith(s, p) == Len(s) >= Len(p) /\ SubSeq(s, 1, Len(p)) = p

\* p in s
Contains(s, p) ==
    \E i \in 1..(Len(s) - Len(p) + 1) : SubSeq(s, i, i + Len(p) - 1) = p

\* any(word in s for word in words)
ContainsAny(s, words) == \E w \in words : Contains(s, w)

-----------------------------------------------------------------------------
(* The environment: outcome of one call to the hosted model or the store *)

Ok(c) == [ok |-> TRUE, content |-> c]

Fail == [ok |-> FALSE, content |-> ""]

\* what a method hands back to its caller: a value, or an exception that
\* left the method, together with the external calls the method made
Return(v, cs) == [exc |-> FALSE, val |-> v, calls |-> cs]

Raise(cs) == [exc |-> TRUE, val |-> "", calls |-> cs]

\* one external call as the log keeps it: the method, its argument, whether
\* the call returned, what it returned (reply) and what the method made of it
Call(fn, arg, o, ret) ==
    [fn |-> fn, arg |-> arg, ok |-> o.ok, reply |-> o.content, ret |-> ret]

\* dict.get(k, d)
Get(m, k, d) == IF k \in DOMAIN m THEN m[k] ELSE d

\* Python None
None == "<None>"

\* no dict returned (yet)
NoResult == [none |-> TRUE]

-----------------------------------------------------------------------------
(* Translator, src/src/translator.py *)

DetectFallback == "english"

DetectLanguages == {"english", "chichewa"}

\* detect_language: the product names are removed from the text of the
\* prompt only; the value returned depends on the model's reply alone
\* detect_language returning the model's word without validating it
detect_language_unvalidated(text, o) ==
    LET language == IF o.ok THEN Lower(Strip(o.content)) ELSE DetectFallback IN
    Return(language, <<Call("detect_language", text, o, language)>>)

detect_language(text, o) ==
    IF o.ok
    THEN LET language == Lower(Strip(o.content)) IN
         IF language \notin DetectLanguages
         THEN Return(DetectFallback, <<Call("detect_language", text, o, DetectFallback)>>)
         ELSE Return(language, <<Call("detect_language", text, o, language)>>)
    ELSE Return(DetectFallback, <<Call("detect_language", text, o, DetectFallback)>>)

TranslationFailed(text) == "[Translation failed: " \o text \o "]"

translate_to_english(chichewa_text, o) ==
    LET translation == IF o.ok THEN Strip(o.content)
                       ELSE TranslationFailed(chichewa_text)
    IN Return(translation,
              <<Call("translate_to_english", chichewa_text, o, translation)>>)

\* _naturalize_chichewa_greetings: a leading "Moni!" or "Moni," is removed
naturalize_chichewa_greetings(text) ==
    IF StartsWith(text, "Moni!") \/ StartsWith(text, "Moni,")
    THEN Strip(SubSeq(text, 6, Len(text)))
    ELSE text

\* translate_to_chichewa calling the model a second time when the first
\* call fails
translate_to_chichewa_retry(english_text, o) ==
    LET translation == IF o.ok
                       THEN naturalize_chichewa_greetings(Strip(o.content))
                       ELSE TranslationFailed(english_text)
        call == Call("translate_to_chichewa", english_text, o, translation)
    IN Return(translation, IF o.ok THEN <<call>> ELSE <<call, call>>)

translate_to_chichewa(english_text, o) ==
    LET translation == IF o.ok
                       THEN naturalize_chichewa_greetings(Strip(o.content))
                       ELSE TranslationFailed(english_text)
    IN Return(translation,
              <<Call("translate_to_chichewa", english_text, o, translation)>>)

-----------------------------------------------------------------------------
(* ChichewaRAGChain, src/src/rag_chain.py *)

\* default of the constructor argument retrieval_k
retrieval_k == 5

ClassifyFallback == "product_inquiry"

valid_categories ==
    {"greeting", "out_of_scope", "product_inquiry",
     "comparison_query", "procedure_question", "general_info"}

\* classify_query returning the model's word without validating it
classify_query_unvalidated(query, o) ==
    LET classification ==
            IF o.ok THEN Lower(Strip(o.content)) ELSE ClassifyFallback
    IN Return(classification,
              <<Call("classify_query", query, o, classification)>>)

classify_query(query, o) ==
    LET classification ==
            IF o.ok
            THEN LET c == Lower(Strip(o.content)) IN
                 IF c \notin valid_categories THEN ClassifyFallback ELSE c
            ELSE ClassifyFallback
    IN Return(classification,
              <<Call("classify_query", query, o, classification)>>)

greeting_english ==
    "Hello! I'm here to help you with questions about bank products and services. "
    \o "You can ask me about different types of accounts, loans, cards, payments, "
    \o "or any banking services. What would you like to know?"

out_of_scope_english ==
    "I'm sorry, but I'm designed specifically to answer questions about bank products "
    \o "and services. I can help you with information about accounts, loans, cards, "
    \o "payment services, and other banking topics. "
    \o "Is there anything about our bank products you'd like to know?"

\* handle_greeting translating whatever the language
handle_greeting_always_translate(language, o) ==
    translate_to_chichewa(greeting_english, o)

handle_greeting(language, o) ==
    IF language = "english"
    THEN Return(greeting_english, <<>>)
    ELSE translate_to_chichewa(greeting_english, o)

handle_out_of_scope(language, o) ==
    IF language = "english"
    THEN Return(out_of_scope_english, <<>>)
    ELSE translate_to_chichewa(out_of_scope_english, o)

\* the dict retrieve_documents builds for one document of the store
FormatDoc(doc) ==
    [content   |-> doc.page_content,
     source    |-> Get(doc.metadata, "source", "Unknown"),
     file_path |-> Get(doc.metadata, "file_path", "")]

\* retrieve_documents without its try/except
retrieve_documents_noexcept(query, k, o) ==
    LET docs == IF o.ok
                THEN [i \in 1..Len(o.content) |-> FormatDoc(o.content[i])]
                ELSE <<>>
        call == Call("similarity_search", [query |-> query, k |-> k], o, docs)
    IN IF o.ok THEN Return(docs, <<call>>) ELSE Raise(<<call>>)

\* retrieve_documents asking for 3 chunks, the number before it was raised
retrieve_documents_k3(query, k, o) ==
    LET docs == IF o.ok
                THEN [i \in 1..Len(o.content) |-> FormatDoc(o.content[i])]
                ELSE <<>>
    IN Return(docs,
              <<Call("similarity_search", [query |-> query, k |-> 3], o, docs)>>)

\* o.content is the list of documents similarity_search returned
retrieve_documents(query, k, o) ==
    LET docs == IF o.ok
                THEN [i \in 1..Len(o.content) |-> FormatDoc(o.content[i])]
                ELSE <<>>
    IN Return(docs,
              <<Call("similarity_search", [query |-> query, k |-> k], o, docs)>>)

RECURSIVE Sources(_, _)
\* the sources of docs[1..n], each once, in the order of first appearance
Sources(docs, n) ==
    IF n = 0 THEN <<>>
    ELSE LET prev == Sources(docs, n - 1) IN
         IF \E j \in 1..Len(prev) : prev[j] = docs[n].source
         THEN prev
         ELSE Append(prev, docs[n].source)

RECURSIVE Context(_, _)
\* "\n\n".join of "[Document i - source]\ncontent" for docs[1..n]
Context(docs, n) ==
    IF n = 0 THEN ""
    ELSE (IF n = 1 THEN "" ELSE Context(docs, n - 1) \o "\n\n")
         \o "[Document " \o ToString(n) \o " - " \o docs[n].source \o "]\n"
         \o docs[n].content

NoResultsFallback ==
    "I apologize, but I couldn't find specific information about that in my "
    \o "knowledge base. Could you try rephrasing your question or asking "
    \o "about a different aspect of our banking products?"

GenerationFallback == "I encountered an error generating the answer."

\* returns the pair (answer, sources)
generate_answer(query, docs, language, o) ==
    IF Len(docs) = 0
    THEN LET answer == IF o.ok THEN Strip(o.content) ELSE NoResultsFallback IN
         Return([answer |-> answer, sources |-> <<>>],
                <<Call("generate_answer", [query |-> query, context |-> ""],
                       o, answer)>>)
    ELSE LET context == Context(docs, Len(docs))
             srcs    == Sources(docs, Len(docs))
             answer  == IF o.ok THEN Strip(o.content) ELSE GenerationFallback
         IN Return([answer |-> answer, sources |-> srcs],
                   <<Call("generate_answer",
                          [query |-> query, context |-> context], o, answer)>>)

-----------------------------------------------------------------------------
(* StructuredPromptChain, src/src/spe_chain.py *)

\* the dict _load_or_create_knowledge_base returns; a Python dict keeps its
\* insertion order: product_order lists the keys of "products", and "fees"
\* is the sequence of its (fee_type, amount) items
product_order == <<"amayi_angathe", "mlimi">>

knowledge_base ==
    [products |->
        [amayi_angathe |->
            [name |-> "Amayi Angathe Business Savings Account",
             category |-> "savings",
             target_audience |-> "Women entrepreneurs and business owners",
             benefits |-> <<
                 "Free monthly maintenance for the first 6 months",
                 "Free ATM card upon account opening",
                 "Low minimum balance of MK 3,000",
                 "Free salary payments via EFT",
                 "50% discount on EFT transaction fees",
                 "Access to Mo626 services without charges">>,
             requirements |-> <<
                 "Valid national ID",
                 "Proof of business registration or trading license",
                 "Initial deposit of MK 3,000",
                 "Passport-sized photograph",
                 "Proof of residence">>,
             fees |-> <<
                 <<"monthly_maintenance", "MK 0 (first 6 months), then MK 200">>,
                 <<"atm_withdrawals", "Free at FDH ATMs, MK 150 at other banks">>,
                 <<"balance_inquiry", "Free">>,
                 <<"eft_transfers", "50% discount on standard fees">> >>,
             features |-> <<
                 "Mobile banking access",
                 "Internet banking",
                 "ATM/debit card",
                 "Overdraft facility available",
                 "Cheque book available">>],
         mlimi |->
            [name |-> "Mlimi Loan",
             category |-> "loan",
             target_audience |-> "Farmers and agricultural businesses",
             benefits |-> <<
                 "Competitive interest rates for agriculture",
                 "Flexible repayment schedule aligned with harvest cycles",
                 "Quick loan processing (7-10 days)",
                 "Loan amounts from MK 50,000 to MK 5,000,000",
                 "No collateral required for loans under MK 200,000">>,
             requirements |-> <<
                 "Valid national ID",
                 "Proof of farming activity (land ownership/lease)",
                 "Business plan or farming proposal",
                 "Collateral for loans above MK 200,000",
                 "Bank account with FDH for at least 3 months">>,
             fees |-> <<
                 <<"interest_rate", "18-22% per annum (depending on loan size)">>,
                 <<"processing_fee", "2% of loan amount">>,
                 <<"insurance", "1.5% of loan amount annually">> >>,
             features |-> <<
                 "Grace period available during planting season",
                 "Flexible repayment terms (6-24 months)",
                 "Loan top-up facility for existing customers",
                 "Agricultural insurance options">>]],
     general_info |->
        [bank_name |-> "FDH Bank",
         working_hours |-> "Monday-Friday: 8:00 AM - 5:00 PM, Saturday: 8:00 AM - 12:00 PM",
         customer_service |-> "Call 313 or +265 1 832 777",
         website |-> "www.fdhbank.com"]]

spe_valid_categories ==
    {"greeting", "out_of_scope", "product_inquiry",
     "comparison_query", "procedure_question", "general_info",
     "contact_inquiry"}

spe_classify_query(query, o) ==
    LET classification ==
            IF o.ok
            THEN LET c == Lower(Strip(o.content)) IN
                 IF c \notin spe_valid_categories THEN ClassifyFallback ELSE c
            ELSE ClassifyFallback
    IN Return(classification,
              <<Call("classify_query", query, o, classification)>>)

\* detect_query_intent looking for the fee words first
detect_query_intent_fees_first(query) ==
    LET query_lower == Lower(query) IN
    IF ContainsAny(query_lower,
           {"fee", "cost", "charge", "price", "mtengo", "phindu",
            "interest rate", "how much"})
    THEN "fees"
    ELSE IF ContainsAny(query_lower,
           {"benefit", "advantage", "ubwino", "why choose", "what do i get"})
    THEN "benefits"
    ELSE IF ContainsAny(query_lower,
           {"requirement", "eligibility", "zofunikira", "qualify", "need to",
            "criteria"})
    THEN "requirements"
    ELSE IF ContainsAny(query_lower,
           {"how does", "how to use", "functionality", "works", "feature"})
    THEN "features"
    ELSE "general"

detect_query_intent(query) ==
    LET query_lower == Lower(query) IN
    IF ContainsAny(query_lower,
           {"benefit", "advantage", "ubwino", "why choose", "what do i get"})
    THEN "benefits"
    ELSE IF ContainsAny(query_lower,
           {"requirement", "eligibility", "zofunikira", "qualify", "need to",
            "criteria"})
    THEN "requirements"
    ELSE IF ContainsAny(query_lower,
           {"fee", "cost", "charge", "price", "mtengo", "phindu",
            "interest rate", "how much"})
    THEN "fees"
    ELSE IF ContainsAny(query_lower,
           {"how does", "how to use", "functionality", "works", "feature"})
    THEN "features"
    ELSE "general"

\* the items of product_mappings, in insertion order
product_mappings ==
    << <<"amayi angathe", "amayi_angathe">>,
       <<"amayi", "amayi_angathe">>,
       <<"mlimi", "mlimi">>,
       <<"farmer", "mlimi">>,
       <<"agricultural", "mlimi">> >>

extract_product_from_query(query) ==
    LET query_lower == Lower(query)
        hits == {i \in 1..Len(product_mappings) :
                    Contains(query_lower, product_mappings[i][1])}
    IN IF hits = {} THEN None
       ELSE product_mappings[CHOOSE i \in hits : \A j \in hits : i <= j][2]

RECURSIVE ReplaceFrom(_, _, _, _)
ReplaceFrom(s, i, a, b) ==
    IF i > Len(s) THEN ""
    ELSE (IF CharAt(s, i) = a THEN b ELSE CharAt(s, i))
         \o ReplaceFrom(s, i + 1, a, b)

\* str.replace(a, b) for one-character a and b
Replace(s, a, b) == ReplaceFrom(s, 1, a, b)

RECURSIVE TitleFrom(_, _)
TitleFrom(s, i) ==
    IF i > Len(s) THEN ""
    ELSE (IF i > 1 /\ IsAlpha(CharAt(s, i - 1))
          THEN LowerChar(CharAt(s, i))
          ELSE UpperChar(CharAt(s, i)))
         \o TitleFrom(s, i + 1)

\* str.title()
Title(s) == TitleFrom(s, 1)

RECURSIVE Join(_, _, _)
\* sep.join(items[1..n])
Join(items, n, sep) ==
    IF n = 0 THEN ""
    ELSE IF n = 1 THEN items[1]
    ELSE Join(items, n - 1, sep) \o sep \o items[n]

RECURSIVE Numbered(_, _)
\* the lines "i. item\n" for items[1..n]
Numbered(items, n) ==
    IF n = 0 THEN ""
    ELSE Numbered(items, n - 1) \o ToString(n) \o ". " \o items[n] \o "\n"

RECURSIVE FeeLines(_, _)
FeeLines(fees, n) ==
    IF n = 0 THEN ""
    ELSE FeeLines(fees, n - 1)
         \o "- " \o Title(Replace(fees[n][1], "_", " ")) \o ": "
         \o fees[n][2] \o "\n"

Min(a, b) == IF a < b THEN a ELSE b

RECURSIVE ProductList(_, _)
\* the loop over all products of the general context; the bullet character
\* of the source is written "*"
ProductList(intent, n) ==
    IF n = 0 THEN ""
    ELSE LET product == knowledge_base.products[product_order[n]] IN
         ProductList(intent, n - 1)
         \o "* " \o product.name \o " (" \o product.category \o ")\n"
         \o "  Target: " \o product.target_audience \o "\n"
         \o (IF intent \in {"benefits", "general"}
             THEN "  Key Benefits: "
                  \o Join(product.benefits, Min(3, Len(product.benefits)), ", ")
                  \o "\n"
             ELSE "")
         \o "\n"

\* build_structured_context writing the four sections of the product
\* whatever the intent
build_structured_context_all_sections(intent, key) ==
    IF key # None /\ key \in DOMAIN knowledge_base.products
    THEN LET product == knowledge_base.products[key] IN
         "PRODUCT: " \o product.name \o "\n"
         \o "CATEGORY: " \o product.category \o "\n"
         \o "TARGET AUDIENCE: " \o product.target_audience \o "\n\n"
         \o ("BENEFITS:\n"
                  \o Numbered(product.benefits, Len(product.benefits)) \o "\n")
         \o ("REQUIREMENTS:\n"
                  \o Numbered(product.requirements, Len(product.requirements))
                  \o "\n")
         \o ("FEES:\n" \o FeeLines(product.fees, Len(product.fees)) \o "\n")
         \o ("FEATURES:\n"
                  \o Numbered(product.features, Len(product.features)) \o "\n")
    ELSE "AVAILABLE BANKING PRODUCTS:\n\n"
         \o ProductList(intent, Len(product_order))

build_structured_context(intent, key) ==
    IF key # None /\ key \in DOMAIN knowledge_base.products
    THEN LET product == knowledge_base.products[key] IN
         "PRODUCT: " \o product.name \o "\n"
         \o "CATEGORY: " \o product.category \o "\n"
         \o "TARGET AUDIENCE: " \o product.target_audience \o "\n\n"
         \o (IF intent = "benefits" \/ intent = "general"
             THEN "BENEFITS:\n"
                  \o Numbered(product.benefits, Len(product.benefits)) \o "\n"
             ELSE "")
         \o (IF intent = "requirements" \/ intent = "general"
             THEN "REQUIREMENTS:\n"
                  \o Numbered(product.requirements, Len(product.requirements))
                  \o "\n"
             ELSE "")
         \o (IF intent = "fees" \/ intent = "general"
             THEN "FEES:\n" \o FeeLines(product.fees, Len(product.fees)) \o "\n"
             ELSE "")
         \o (IF intent = "features" \/ intent = "general"
             THEN "FEATURES:\n"
                  \o Numbered(product.features, Len(product.features)) \o "\n"
             ELSE "")
    ELSE "AVAILABLE BANKING PRODUCTS:\n\n"
         \o ProductList(intent, Len(product_order))

SpeFallbackChichewa ==
    "Pepani, panali vuto pakupanga yankho. Mungafunse mwanjira ina?"

SpeFallbackEnglish ==
    "I apologize, there was an error generating the answer. "
    \o "Could you try rephrasing your question?"

spe_generate_answer(query, context, target_language, intent, o) ==
    LET answer == IF o.ok THEN Strip(o.content)
                  ELSE IF target_language = "chichewa"
                       THEN SpeFallbackChichewa
                       ELSE SpeFallbackEnglish
    IN Return(answer,
              <<Call("generate_answer",
                     [query |-> query, context |-> context], o, answer)>>)

-----------------------------------------------------------------------------
(* Inputs and replies of the environment *)

\* longest list of documents the store returns in the model
MaxDocs == 2

\* a greeting, queries of the tests (tests/compare_rag_spe.py,
\* tests/simple_eval.py), and queries that name no product, no aspect, or
\* several aspects
UserQueries ==
    {"Moni, muli bwanji?",
     "Ubwino wa amayi angathe account",
     "What's the weather like today?",
     "Cost of Mlimi Loan",
     "Requirements for mlimi loan",
     "How does the farmer loan work?",
     "Tell me about Mlimi Loan",
     "What are the fees and requirements?",
     "Cost and benefits of amayi angathe account",
     "Why choose this bank?"}

DetectReplies == {"english", "chichewa", " Chichewa\n", "Chichewa language"}

\* translations the model gives, those of the comparison test among them
TranslateEnReplies ==
    {"Hello, how are you?", " Benefits of the Amayi Angathe account ",
     "How does it work and how much is it?",
     "Benefits of amayi angathe account",
     "Cost of amayi angathe account"}

ClassifyReplies ==
    {"greeting", "out_of_scope", "product_inquiry", "comparison_query",
     "procedure_question", "general_info", "contact_inquiry",
     " Greeting\n", "Category: greeting"}

TranslateNyReplies ==
    {"Moni! Zikomo kwambiri", "Zikomo, tikuthandizani "}

AnswerReplies ==
    {" The account has these benefits. ", "Sorry, I do not know."}

\* the chunks of the vector store: two of one file, and one whose metadata
\* names no source
StoreDocs ==
    {[page_content |-> "Mlimi Loan: competitive interest rates",
      metadata |-> [source |-> "mlimi.pdf",
                    file_path |-> "data/docs/national-bank-products/mlimi.pdf",
                    file_type |-> ".pdf"]],
     [page_content |-> "Mlimi Loan: processing fee 2%",
      metadata |-> [source |-> "mlimi.pdf",
                    file_path |-> "data/docs/national-bank-products/mlimi.pdf",
                    file_type |-> ".pdf"]],
     [page_content |-> "Call Centre: 626",
      metadata |-> [file_type |-> "contacts"]]}

\* the lists of at most n distinct documents
DocLists(n) ==
    UNION {{l \in [1..m -> StoreDocs] :
               \A i, j \in 1..m : i # j => l[i] # l[j]} : m \in 0..n}

LLMOutcomes(replies) == {Ok(c) : c \in replies} \cup {Fail}

\* similarity_search returns at most k documents, or raises
SearchOutcomes(k) == {Ok(l) : l \in DocLists(Min(k, MaxDocs))} \cup {Fail}

-----------------------------------------------------------------------------
(* answer_query, step by step *)

\* the state of the locals before answer_query assigns them
ChainInit ==
    /\ chain = "rag"
    /\ pc = "idle"
    /\ user_query = ""
    /\ return_metadata = FALSE
    /\ detected_language = ""
    /\ english_query = ""
    /\ query_type = ""
    /\ query_intent = ""
    /\ product_key = None
    /\ structured_context = ""
    /\ retrieved_docs = <<>>
    /\ english_answer = ""
    /\ sources = <<>>
    /\ result = NoResult
    /\ raised = FALSE
    /\ calls = <<>>

\* a caller invokes answer_query(q, return_metadata=m) of chain c
AnswerQuery(c, q, m) ==
    /\ pc \in {"idle", "done", "raised"}
    /\ chain' = c
    /\ pc' = "detect_language"
    /\ user_query' = q
    /\ return_metadata' = m
    /\ detected_language' = ""
    /\ english_query' = ""
    /\ query_type' = ""
    /\ query_intent' = ""
    /\ product_key' = None
    /\ structured_context' = ""
    /\ retrieved_docs' = <<>>
    /\ english_answer' = ""
    /\ sources' = <<>>
    /\ result' = NoResult
    /\ raised' = FALSE
    /\ calls' = <<>>
    /\ UNCHANGED appVars

\* control after a method call: on to the next step, or out of answer_query
\* with the exception the method let through
After(r, next) ==
    /\ calls' = calls \o r.calls
    /\ raised' = r.exc
    /\ pc' = IF r.exc THEN "raised" ELSE next

\* Step 1 of both chains
DetectLanguage ==
    /\ pc = "detect_language"
    /\ \E o \in LLMOutcomes(DetectReplies) :
         LET r == detect_language(user_query, o) IN
         /\ After(r, "translate_query")
         /\ detected_language' = IF r.exc THEN detected_language ELSE r.val
    /\ UNCHANGED <<chain, user_query, return_metadata, english_query,
                   query_type, query_intent, product_key, structured_context,
                   retrieved_docs, english_answer, sources, result>>
    /\ UNCHANGED appVars

\* Step 2, detected_language == "chichewa"
TranslateQuery ==
    /\ pc = "translate_query"
    /\ detected_language = "chichewa"
    /\ \E o \in LLMOutcomes(TranslateEnReplies) :
         LET r == translate_to_english(user_query, o) IN
         /\ After(r, "classify_query")
         /\ english_query' = IF r.exc THEN english_query ELSE r.val
    /\ UNCHANGED <<chain, user_query, return_metadata, detected_language,
                   query_type, query_intent, product_key, structured_context,
                   retrieved_docs, english_answer, sources, result>>
    /\ UNCHANGED appVars

\* Step 2 going on to the routing, past the classification
KeepQuery_skip_classify ==
    /\ pc = "translate_query"
    /\ detected_language # "chichewa"
    /\ english_query' = user_query
    /\ pc' = "route"
    /\ UNCHANGED <<chain, user_query, return_metadata, detected_language,
                   query_type, query_intent, product_key, structured_context,
                   retrieved_docs, english_answer, sources, result, raised,
                   calls>>
    /\ UNCHANGED appVars

\* Step 2, any other detected_language
KeepQuery ==
    /\ pc = "translate_query"
    /\ detected_language # "chichewa"
    /\ english_query' = user_query
    /\ pc' = "classify_query"
    /\ UNCHANGED <<chain, user_query, return_metadata, detected_language,
                   query_type, query_intent, product_key, structured_context,
                   retrieved_docs, english_answer, sources, result, raised,
                   calls>>
    /\ UNCHANGED appVars

\* Step 3; the two classes have their own classify_query
ClassifyQuery ==
    /\ pc = "classify_query"
    /\ \E o \in LLMOutcomes(ClassifyReplies) :
         LET r == IF chain = "rag" THEN classify_query(english_query, o)
                  ELSE spe_classify_query(english_query, o) IN
         /\ After(r, IF chain = "rag" THEN "route" ELSE "build_context")
         /\ query_type' = IF r.exc THEN query_type ELSE r.val
    /\ UNCHANGED <<chain, user_query, return_metadata, detected_language,
                   english_query, query_intent, product_key,
                   structured_context, retrieved_docs, english_answer,
                   sources, result>>
    /\ UNCHANGED appVars

\* rag Step 4, query_type == "greeting": answer and return
HandleGreeting ==
    /\ chain = "rag"
    /\ pc = "route"
    /\ query_type = "greeting"
    /\ \E o \in LLMOutcomes(TranslateNyReplies) :
         LET r == handle_greeting(detected_language, o) IN
         /\ After(r, "done")
         /\ result' = IF r.exc THEN result
                      ELSE [answer |-> r.val,
                            query_type |-> "greeting",
                            sources |-> <<>>,
                            english_query |-> english_query,
                            detected_language |-> detected_language]
    /\ UNCHANGED <<chain, user_query, return_metadata, detected_language,
                   english_query, query_type, query_intent, product_key,
                   structured_context, retrieved_docs, english_answer,
                   sources>>
    /\ UNCHANGED appVars

\* rag Step 4, query_type == "out_of_scope": answer and return
HandleOutOfScope ==
    /\ chain = "rag"
    /\ pc = "route"
    /\ query_type = "out_of_scope"
    /\ \E o \in LLMOutcomes(TranslateNyReplies) :
         LET r == handle_out_of_scope(detected_language, o) IN
         /\ After(r, "done")
         /\ result' = IF r.exc THEN result
                      ELSE [answer |-> r.val,
                            query_type |-> "out_of_scope",
                            sources |-> <<>>,
                            english_query |-> english_query,
                            detected_language |-> detected_language]
    /\ UNCHANGED <<chain, user_query, return_metadata, detected_language,
                   english_query, query_type, query_intent, product_key,
                   structured_context, retrieved_docs, english_answer,
                   sources>>
    /\ UNCHANGED appVars

\* Step 4 with the out_of_scope branch falling through to the retrieval
RetrieveDocuments_out_of_scope ==
    /\ chain = "rag"
    /\ pc = "route"
    /\ query_type \notin {"greeting"}
    /\ \E o \in SearchOutcomes(retrieval_k) :
         LET r == retrieve_documents(english_query, retrieval_k, o) IN
         /\ After(r, "generate_answer")
         /\ retrieved_docs' = IF r.exc THEN retrieved_docs ELSE r.val
    /\ UNCHANGED <<chain, user_query, return_metadata, detected_language,
                   english_query, query_type, query_intent, product_key,
                   structured_context, english_answer, sources, result>>
    /\ UNCHANGED appVars

\* rag Step 4, any other query_type
RetrieveDocuments ==
    /\ chain = "rag"
    /\ pc = "route"
    /\ query_type \notin {"greeting", "out_of_scope"}
    /\ \E o \in SearchOutcomes(retrieval_k) :
         LET r == retrieve_documents(english_query, retrieval_k, o) IN
         /\ After(r, "generate_answer")
         /\ retrieved_docs' = IF r.exc THEN retrieved_docs ELSE r.val
    /\ UNCHANGED <<chain, user_query, return_metadata, detected_language,
                   english_query, query_type, query_intent, product_key,
                   structured_context, english_answer, sources, result>>
    /\ UNCHANGED appVars

\* rag Step 5
GenerateAnswer ==
    /\ chain = "rag"
    /\ pc = "generate_answer"
    /\ \E o \in LLMOutcomes(AnswerReplies) :
         LET r == generate_answer(english_query, retrieved_docs,
                                  detected_language, o) IN
         /\ After(r, "translate_answer")
         /\ english_answer' = IF r.exc THEN english_answer ELSE r.val.answer
         /\ sources' = IF r.exc THEN sources ELSE r.val.sources
    /\ UNCHANGED <<chain, user_query, return_metadata, detected_language,
                   english_query, query_type, query_intent, product_key,
                   structured_context, retrieved_docs, result>>
    /\ UNCHANGED appVars

\* the dict the retrieval branch returns
RetrievalResult(final_answer) ==
    LET res == [answer |-> final_answer,
                query_type |-> query_type,
                sources |-> sources,
                english_query |-> english_query,
                detected_language |-> detected_language]
    IN IF return_metadata
       THEN [k \in DOMAIN res \cup {"english_answer", "retrieved_docs"} |->
                IF k = "english_answer" THEN english_answer
                ELSE IF k = "retrieved_docs" THEN retrieved_docs
                ELSE res[k]]
       ELSE res

\* rag Step 6, detected_language == "chichewa": translate, then return
TranslateAnswer ==
    /\ chain = "rag"
    /\ pc = "translate_answer"
    /\ detected_language = "chichewa"
    /\ \E o \in LLMOutcomes(TranslateNyReplies) :
         LET r == translate_to_chichewa(english_answer, o) IN
         /\ After(r, "done")
         /\ result' = IF r.exc THEN result ELSE RetrievalResult(r.val)
    /\ UNCHANGED <<chain, user_query, return_metadata, detected_language,
                   english_query, query_type, query_intent, product_key,
                   structured_context, retrieved_docs, english_answer,
                   sources>>
    /\ UNCHANGED appVars

\* rag Step 6, any other detected_language: return the English answer
KeepAnswer ==
    /\ chain = "rag"
    /\ pc = "translate_answer"
    /\ detected_language # "chichewa"
    /\ result' = RetrievalResult(english_answer)
    /\ pc' = "done"
    /\ UNCHANGED <<chain, user_query, return_metadata, detected_language,
                   english_query, query_type, query_intent, product_key,
                   structured_context, retrieved_docs, english_answer,
                   sources, raised, calls>>
    /\ UNCHANGED appVars

\* spe Steps 4 to 6: intent, product and context, none of them a remote call
BuildContext ==
    /\ chain = "spe"
    /\ pc = "build_context"
    /\ query_intent' = detect_query_intent(english_query)
    /\ product_key' = extract_product_from_query(english_query)
    /\ structured_context' =
           build_structured_context(detect_query_intent(english_query),
                                    extract_product_from_query(english_query))
    /\ pc' = "spe_generate_answer"
    /\ UNCHANGED <<chain, user_query, return_metadata, detected_language,
                   english_query, query_type, retrieved_docs, english_answer,
                   sources, result, raised, calls>>
    /\ UNCHANGED appVars

\* spe Step 7: generate in the detected language, then return
SpeGenerateAnswer ==
    /\ chain = "spe"
    /\ pc = "spe_generate_answer"
    /\ \E o \in LLMOutcomes(AnswerReplies) :
         LET r == spe_generate_answer(english_query, structured_context,
                                      detected_language, query_intent, o) IN
         /\ After(r, "done")
         /\ result' = IF r.exc THEN result
                      ELSE [answer |-> r.val,
                            query_type |-> query_type,
                            query_intent |-> query_intent,
                            product |-> product_key,
                            english_query |-> english_query,
                            detected_language |-> detected_language,
                            approach |-> "structured_prompt_engineering"]
    /\ UNCHANGED <<chain, user_query, return_metadata, detected_language,
                   english_query, query_type, query_intent, product_key,
                   structured_context, retrieved_docs, english_answer,
                   sources>>
    /\ UNCHANGED appVars

-----------------------------------------------------------------------------
(* Construction: DocumentProcessor, ChichewaRAGChain.__init__ and           *)
(* initialize_session_state                                                 *)

NoException == ""

Outcome(e, dir) == [exc |-> e, vectorstore_dir |-> dir]

\* DocumentProcessor.load_vectorstore
load_vectorstore(dir) ==
    IF ~dir THEN Outcome("FileNotFoundError", dir)
    ELSE Outcome(NoException, dir)

\* DocumentProcessor.process_documents: load_all_documents raises when the
\* documents are missing; create_vectorstore makes the directory and then
\* embeds the chunks, a network call (net: it succeeds)
process_documents(force_recreate, dir, docs, net) ==
    IF dir /\ ~force_recreate THEN load_vectorstore(dir)
    ELSE IF ~docs THEN Outcome("FileNotFoundError", dir)
    ELSE IF net THEN Outcome(NoException, TRUE)
    ELSE Outcome("APIConnectionError", TRUE)

\* ChichewaRAGChain.__init__
rag_chain_init(dir, docs, net) ==
    IF load_vectorstore(dir).exc = "FileNotFoundError"
    THEN process_documents(TRUE, dir, docs, net)
    ELSE load_vectorstore(dir)

\* the part of initialize_session_state that sets 'rag_chain'; ctor is the
\* exception of the last ChichewaRAGChain() made
initialize_rag_chain(dir, docs, net1, net2, net3) ==
    LET c1 == rag_chain_init(dir, docs, net1) IN
    IF c1.exc = "FileNotFoundError"
    THEN LET p  == process_documents(TRUE, c1.vectorstore_dir, docs, net2)
             c2 == rag_chain_init(p.vectorstore_dir, docs, net3)
         IN IF p.exc # NoException
            THEN [exc |-> p.exc, ctor |-> c1.exc,
                  vectorstore_dir |-> p.vectorstore_dir]
            ELSE [exc |-> c2.exc, ctor |-> c2.exc,
                  vectorstore_dir |-> c2.vectorstore_dir]
    ELSE [exc |-> c1.exc, ctor |-> c1.exc,
          vectorstore_dir |-> c1.vectorstore_dir]

-----------------------------------------------------------------------------
(* RateLimiter, src/app.py *)

MAX_QUERIES_PER_SESSION == 20

MAX_QUERIES_PER_HOUR == 10

RATE_LIMIT_WINDOW == 3600

\* the clock is read every RATE_LIMIT_WINDOW / TicksPerWindow seconds
TicksPerWindow == 2

\* the model follows the session for MaxHours windows
MaxHours == 2

\* invocations that raise, followed between two Clear Chat
MaxFailed == 1

\* answers followed within one window
MaxAnswered == 11

TickLen == RATE_LIMIT_WINDOW \div TicksPerWindow

MaxTime == MaxHours * RATE_LIMIT_WINDOW

SessionLimitMessage ==
    "Mwaposa muyeso wa mafunso mu session iyi ("
    \o ToString(MAX_QUERIES_PER_SESSION)
    \o " mafunso). Chonde yambitsaninso tsamba."

HourlyLimitMessage ==
    "Mwaposa muyeso wa mafunso pa ola ("
    \o ToString(MAX_QUERIES_PER_HOUR)
    \o " mafunso pa ola). Chonde yesani mu ola limene likubweralo."

\* the entries of a list of timestamps later than cutoff_time
After_cutoff(queries, cutoff_time) ==
    SelectSeq(queries, LAMBDA q : q > cutoff_time)

\* can_make_query refusing only above the session limit
can_make_query_session_gt(count, queries, t) ==
    IF count > MAX_QUERIES_PER_SESSION
    THEN [can_query |-> FALSE, message |-> SessionLimitMessage,
          hourly_queries |-> queries]
    ELSE LET cleaned == After_cutoff(queries, t - RATE_LIMIT_WINDOW) IN
         IF Len(cleaned) >= MAX_QUERIES_PER_HOUR
         THEN [can_query |-> FALSE, message |-> HourlyLimitMessage,
               hourly_queries |-> cleaned]
         ELSE [can_query |-> TRUE, message |-> "",
               hourly_queries |-> cleaned]

\* can_make_query refusing only above the hourly limit
can_make_query_hourly_gt(count, queries, t) ==
    IF count >= MAX_QUERIES_PER_SESSION
    THEN [can_query |-> FALSE, message |-> SessionLimitMessage,
          hourly_queries |-> queries]
    ELSE LET cleaned == After_cutoff(queries, t - RATE_LIMIT_WINDOW) IN
         IF Len(cleaned) > MAX_QUERIES_PER_HOUR
         THEN [can_query |-> FALSE, message |-> HourlyLimitMessage,
               hourly_queries |-> cleaned]
         ELSE [can_query |-> TRUE, message |-> "",
               hourly_queries |-> cleaned]

\* can_make_query checking the hourly limit before the session limit
can_make_query_hourly_first(count, queries, t) ==
    LET cleaned == After_cutoff(queries, t - RATE_LIMIT_WINDOW) IN
    IF Len(cleaned) >= MAX_QUERIES_PER_HOUR
    THEN [can_query |-> FALSE, message |-> HourlyLimitMessage,
          hourly_queries |-> cleaned]
    ELSE IF count >= MAX_QUERIES_PER_SESSION
    THEN [can_query |-> FALSE, message |-> SessionLimitMessage,
          hourly_queries |-> cleaned]
    ELSE [can_query |-> TRUE, message |-> "",
          hourly_queries |-> cleaned]

\* can_make_query counting hourly_queries without removing the old ones
can_make_query_no_clean(count, queries, t) ==
    IF count >= MAX_QUERIES_PER_SESSION
    THEN [can_query |-> FALSE, message |-> SessionLimitMessage,
          hourly_queries |-> queries]
    ELSE IF Len(queries) >= MAX_QUERIES_PER_HOUR
         THEN [can_query |-> FALSE, message |-> HourlyLimitMessage,
               hourly_queries |-> queries]
         ELSE [can_query |-> TRUE, message |-> "",
               hourly_queries |-> queries]

\* RateLimiter.can_make_query at time t: the pair it returns and the
\* hourly_queries it leaves in rate_limiter_data
can_make_query(count, queries, t) ==
    IF count >= MAX_QUERIES_PER_SESSION
    THEN [can_query |-> FALSE, message |-> SessionLimitMessage,
          hourly_queries |-> queries]
    ELSE LET cleaned == After_cutoff(queries, t - RATE_LIMIT_WINDOW) IN
         IF Len(cleaned) >= MAX_QUERIES_PER_HOUR
         THEN [can_query |-> FALSE, message |-> HourlyLimitMessage,
               hourly_queries |-> cleaned]
         ELSE [can_query |-> TRUE, message |-> "",
               hourly_queries |-> cleaned]

\* RateLimiter.record_query at time t
record_query(count, queries, t) ==
    [session_count |-> count + 1, hourly_queries |-> Append(queries, t)]

-----------------------------------------------------------------------------
(* The Streamlit session, src/app.py.  Every interaction reruns main();     *)
(* st.session_state lives on between the runs.  session_start is only       *)
(* displayed and is left out.                                               *)

\* a fresh deployment: no vector store on disk yet
AppInit ==
    /\ app_pc = "start"
    /\ has_rag_chain = FALSE
    /\ vectorstore_dir = FALSE
    /\ docs_dir \in BOOLEAN
    /\ ctor_raised = NoException
    /\ init_raised = NoException
    /\ session_count = 0
    /\ hourly_queries = <<>>
    /\ messages = 0
    /\ now = 0
    /\ limit_message = ""
    /\ invocations = 0
    /\ failed = 0
    /\ recorded = <<>>
    /\ answered = <<>>

\* a run of main() while 'rag_chain' is not in st.session_state; an
\* exception ends the run, and the next run starts over
InitializeSessionState ==
    /\ app_pc = "start"
    /\ ~has_rag_chain
    /\ \E net1, net2, net3 \in BOOLEAN :
         LET r == initialize_rag_chain(vectorstore_dir, docs_dir,
                                       net1, net2, net3) IN
         /\ vectorstore_dir' = r.vectorstore_dir
         /\ ctor_raised' = r.ctor
         /\ init_raised' = r.exc
         /\ has_rag_chain' = (r.exc = NoException)
         /\ app_pc' = IF r.exc = NoException THEN "ready" ELSE "start"
    /\ UNCHANGED <<docs_dir, session_count, hourly_queries, messages, now,
                   limit_message, invocations, failed, recorded, answered>>
    /\ UNCHANGED chainVars

\* a prompt that can_make_query admits: the user message is stored and
\* answer_query is invoked
SubmitPrompt ==
    /\ app_pc = "ready"
    /\ Len(answered) < MaxAnswered
    /\ LET c == can_make_query(session_count, hourly_queries, now) IN
         /\ c.can_query
         /\ hourly_queries' = c.hourly_queries
         /\ limit_message' = c.message
    /\ messages' = messages + 1
    /\ invocations' = invocations + 1
    /\ app_pc' = "answering"
    /\ UNCHANGED <<has_rag_chain, vectorstore_dir, docs_dir, ctor_raised,
                   init_raised, session_count, now, failed, recorded,
                   answered>>
    /\ UNCHANGED chainVars

\* a prompt that can_make_query refuses: st.error(limit_message) and st.stop
RefusePrompt ==
    /\ app_pc = "ready"
    /\ LET c == can_make_query(session_count, hourly_queries, now) IN
         /\ ~c.can_query
         /\ hourly_queries' = c.hourly_queries
         /\ limit_message' = c.message
    /\ UNCHANGED <<app_pc, has_rag_chain, vectorstore_dir, docs_dir,
                   ctor_raised, init_raised, session_count, messages, now,
                   invocations, failed, recorded, answered>>
    /\ UNCHANGED chainVars

\* the try block runs to its end: the answer is shown, the query recorded
\* and the assistant message stored
AnswerReturns ==
    /\ app_pc = "answering"
    /\ LET d == record_query(session_count, hourly_queries, now) IN
         /\ session_count' = d.session_count
         /\ hourly_queries' = d.hourly_queries
    /\ recorded' = Append(recorded, now)
    /\ answered' = Append(answered, now)
    /\ messages' = messages + 1
    /\ app_pc' = "ready"
    /\ UNCHANGED <<has_rag_chain, vectorstore_dir, docs_dir, ctor_raised,
                   init_raised, now, limit_message, invocations, failed>>
    /\ UNCHANGED chainVars

\* the try block raises before record_query: the except branch stores the
\* error message
AnswerRaises ==
    /\ app_pc = "answering"
    /\ failed < MaxFailed
    /\ failed' = failed + 1
    /\ messages' = messages + 1
    /\ app_pc' = "ready"
    /\ UNCHANGED <<has_rag_chain, vectorstore_dir, docs_dir, ctor_raised,
                   init_raised, session_count, hourly_queries, now,
                   limit_message, invocations, recorded, answered>>
    /\ UNCHANGED chainVars

\* the Clear Chat button: clear_chat_history, then st.rerun draws the page
\* anew
ClearChat ==
    /\ app_pc = "ready"
    /\ limit_message' = ""
    /\ messages' = 0
    /\ session_count' = 0
    /\ hourly_queries' = <<>>
    /\ invocations' = 0
    /\ failed' = 0
    /\ recorded' = <<>>
    /\ UNCHANGED <<app_pc, has_rag_chain, vectorstore_dir, docs_dir,
                   ctor_raised, init_raised, now, answered>>
    /\ UNCHANGED chainVars

\* time passes
Tick ==
    /\ now + TickLen <= MaxTime
    /\ now' = now + TickLen
    /\ answered' = After_cutoff(answered, now + TickLen - RATE_LIMIT_WINDOW)
    /\ UNCHANGED <<app_pc, has_rag_chain, vectorstore_dir, docs_dir,
                   ctor_raised, init_raised, session_count, hourly_queries,
                   messages, limit_message, invocations, failed, recorded>>
    /\ UNCHANGED chainVars

-----------------------------------------------------------------------------
(* Specifications *)

\* a chain object, constructed, whose answer_query is called again and again
Init == ChainInit /\ AppInit /\ docs_dir = TRUE

Next ==
    \/ \E q \in UserQueries, m \in BOOLEAN : AnswerQuery("rag", q, m)
    \/ \E q \in UserQueries : AnswerQuery("spe", q, FALSE)
    \/ DetectLanguage
    \/ TranslateQuery
    \/ KeepQuery
    \/ ClassifyQuery
    \/ HandleGreeting
    \/ HandleOutOfScope
    \/ RetrieveDocuments
    \/ GenerateAnswer
    \/ TranslateAnswer
    \/ KeepAnswer
    \/ BuildContext
    \/ SpeGenerateAnswer

Spec == Init /\ [][Next]_vars

\* one browser session of the Streamlit app
AppNext ==
    \/ InitializeSessionState
    \/ SubmitPrompt
    \/ RefusePrompt
    \/ AnswerReturns
    \/ AnswerRaises
    \/ ClearChat
    \/ Tick

InitApp == ChainInit /\ AppInit

SpecApp == InitApp /\ [][AppNext]_vars

-----------------------------------------------------------------------------
(* Properties of answer_query *)

\* the positions in calls of the calls made by method fn
CallsOf(fn) == {i \in 1..Len(calls) : calls[i].fn = fn}

NCalls(fn) == Cardinality(CallsOf(fn))

\* the label classify_query returned in this invocation
Classified == CallsOf("classify_query") # {}

Label == calls[CHOOSE i \in CallsOf("classify_query") : TRUE].ret

\* the language detect_language returned in this invocation
Detected == CallsOf("detect_language") # {}

Language == calls[CHOOSE i \in CallsOf("detect_language") : TRUE].ret

NoRetrievalLabels == {"greeting", "out_of_scope"}

\* C1: ChichewaRAGChain.answer_query routes on the label classify_query
\* returned: for greeting and out_of_scope neither the similarity search nor
\* generate_answer is ever called and the result has no sources; for every
\* other label each of the two has been called exactly once when
\* answer_query returns; the result's query_type is the label.
C1_RoutesOnLabel ==
    (chain = "rag" /\ Classified) =>
        /\ Label \in NoRetrievalLabels =>
              /\ NCalls("similarity_search") = 0
              /\ NCalls("generate_answer") = 0
              /\ pc = "done" => result.sources = <<>>
        /\ (Label \notin NoRetrievalLabels /\ pc = "done") =>
              /\ NCalls("similarity_search") = 1
              /\ NCalls("generate_answer") = 1
        /\ pc = "done" => result.query_type = Label

C1_Witness ==
    /\ chain = "rag"
    /\ pc = "done"
    /\ Label = "comparison_query"
    /\ NCalls("similarity_search") = 1
    /\ NCalls("generate_answer") = 1
    /\ result.query_type = "comparison_query"

\* the place of a method in the order of the pipeline
Rank(fn) ==
    CASE fn = "detect_language"       -> 1
      [] fn = "translate_to_english"  -> 2
      [] fn = "classify_query"        -> 3
      [] fn = "similarity_search"     -> 4
      [] fn = "generate_answer"       -> 5
      [] fn = "translate_to_chichewa" -> 6

\* C2: within one ChichewaRAGChain.answer_query the external calls are made
\* in the order detection, translation to English (Chichewa only),
\* classification, similarity search (retrieval labels only), generation,
\* translation to Chichewa (Chichewa only); a similarity search comes after
\* the classification and a generation after the similarity search.
C2_CallOrder ==
    chain = "rag" =>
        /\ \A i, j \in 1..Len(calls) :
              i < j => Rank(calls[i].fn) < Rank(calls[j].fn)
        /\ calls # <<>> => calls[1].fn = "detect_language"
        /\ CallsOf("translate_to_english") # {} => Language = "chichewa"
        /\ CallsOf("translate_to_chichewa") # {} => Language = "chichewa"
        /\ \A j \in CallsOf("similarity_search") :
              /\ \E i \in CallsOf("classify_query") : i < j
              /\ Label \notin NoRetrievalLabels
        /\ \A j \in CallsOf("generate_answer") :
              \E i \in CallsOf("similarity_search") : i < j
        /\ pc = "done" =>
              /\ Detected
              /\ Classified
              /\ Language = "chichewa" =>
                    /\ CallsOf("translate_to_english") # {}
                    /\ CallsOf("translate_to_chichewa") # {}

C2_Witness ==
    /\ chain = "rag"
    /\ pc = "done"
    /\ [i \in 1..Len(calls) |-> calls[i].fn] =
           <<"detect_language", "translate_to_english", "classify_query",
             "similarity_search", "generate_answer", "translate_to_chichewa">>

\* C3: whichever external calls fail, no exception leaves answer_query of
\* either chain, and the dict it returns has a string under 'answer'.
C3_NoExceptionLeaves ==
    /\ ~raised
    /\ pc # "raised"
    /\ pc = "done" =>
          /\ "answer" \in DOMAIN result
          /\ result.answer \in STRING

\* every external call of a retrieval failed, and answer_query returned
C3_Witness ==
    /\ chain = "rag"
    /\ pc = "done"
    /\ Len(calls) = 4
    /\ NCalls("similarity_search") = 1
    /\ \A i \in 1..Len(calls) : ~calls[i].ok
    /\ result.answer = GenerationFallback \/ result.answer = NoResultsFallback

LLMMethods ==
    {"detect_language", "translate_to_english", "classify_query",
     "generate_answer", "translate_to_chichewa"}

\* C4: in one ChichewaRAGChain.answer_query no external call is made twice,
\* failed or not: at most 5 calls to the model and at most 1 similarity
\* search.
C4_NoRetry ==
    chain = "rag" =>
        /\ \A fn \in LLMMethods \cup {"similarity_search"} : NCalls(fn) <= 1
        /\ Cardinality({i \in 1..Len(calls) : calls[i].fn \in LLMMethods}) <= 5
        /\ NCalls("similarity_search") <= 1

\* five calls to the model and one search, the last three of them failed
C4_Witness ==
    /\ chain = "rag"
    /\ pc = "done"
    /\ Cardinality({i \in 1..Len(calls) : calls[i].fn \in LLMMethods}) = 5
    /\ NCalls("similarity_search") = 1
    /\ \A i \in 4..6 : ~calls[i].ok

\* the answer returned is what a translate_to_chichewa call returned
AnswerIsTranslation ==
    \E i \in CallsOf("translate_to_chichewa") : calls[i].ret = result.answer

\* C10: ChichewaRAGChain.answer_query answers in the language of the query:
\* translate_to_english is called iff detect_language returned 'chichewa'
\* (otherwise english_query is user_query); the answer returned is the
\* output of translate_to_chichewa iff the language is 'chichewa'; for
\* 'english' no translation call is made in any branch.
C10_AnswersInLanguage ==
    (chain = "rag" /\ Detected) =>
        /\ Language \in {"english", "chichewa"}
        /\ pc \notin {"translate_query", "raised"} =>
              /\ CallsOf("translate_to_english") # {} <=> Language = "chichewa"
              /\ Language # "chichewa" => english_query = user_query
        /\ pc = "done" => (AnswerIsTranslation <=> Language = "chichewa")
        /\ Language = "english" =>
              /\ CallsOf("translate_to_english") = {}
              /\ CallsOf("translate_to_chichewa") = {}

\* a Chichewa greeting answered with the translated greeting
C10_Witness ==
    /\ chain = "rag"
    /\ pc = "done"
    /\ Language = "chichewa"
    /\ Label = "greeting"
    /\ AnswerIsTranslation
    /\ calls[Len(calls)].arg = greeting_english
    /\ calls[Len(calls)].ok

-----------------------------------------------------------------------------
(* Properties of the Streamlit session *)

\* C5: every network call is inside a try/except, the embedding calls of the
\* creation of the vector store included: no exception leaves the
\* construction of ChichewaRAGChain or initialize_session_state.
C5_StartupNeverRaises ==
    /\ ctor_raised = NoException
    /\ init_raised = NoException

\* C6: between two Clear Chat, session_count never exceeds
\* MAX_QUERIES_PER_SESSION: a prompt is admitted only while session_count is
\* below it, and every answered prompt adds exactly 1.
C6_SessionCountBounded ==
    /\ session_count <= MAX_QUERIES_PER_SESSION
    /\ app_pc = "answering" => session_count < MAX_QUERIES_PER_SESSION
    /\ session_count = Len(recorded)

C6_Witness ==
    /\ session_count = MAX_QUERIES_PER_SESSION
    /\ Len(recorded) = MAX_QUERIES_PER_SESSION
    /\ app_pc = "ready"

\* the queries recorded since the last Clear Chat in the window (t - W, t]
RecordedIn(t) ==
    {j \in 1..Len(recorded) :
        recorded[j] > t - RATE_LIMIT_WINDOW /\ recorded[j] <= t}

\* the windows that end at a recorded query; the recorded queries of any
\* other window (t - W, t] or [t, t + W) lie in the one that ends at its
\* last query
WindowEnds == {recorded[i] : i \in 1..Len(recorded)}

\* C7: between two Clear Chat, every window of RATE_LIMIT_WINDOW seconds
\* (open at one end) holds at most MAX_QUERIES_PER_HOUR recorded queries,
\* the limit being checked before the call and the time taken after it.
C7_HourlyWindowBounded ==
    \A t \in WindowEnds : Cardinality(RecordedIn(t)) <= MAX_QUERIES_PER_HOUR

\* a full window whose queries were recorded at different times, the
\* earlier queries of the session having left the window
C7_Witness ==
    /\ Len(recorded) > MAX_QUERIES_PER_HOUR
    /\ \E t \in WindowEnds :
          /\ Cardinality(RecordedIn(t)) = MAX_QUERIES_PER_HOUR
          /\ \E i, j \in RecordedIn(t) : recorded[i] # recorded[j]

\* C8: in one session without Clear Chat answer_query is invoked at most
\* MAX_QUERIES_PER_SESSION times, the invocations that raise included.
C8_InvocationsBounded == invocations <= MAX_QUERIES_PER_SESSION

\* C9: at most MAX_QUERIES_PER_HOUR queries are answered in any one-hour
\* window of a browser session, Clear Chat or not.
C9_AnswersPerHourBounded == Len(answered) <= MAX_QUERIES_PER_HOUR

-----------------------------------------------------------------------------
(* Properties of the methods answer_query calls *)

SixLabels ==
    {"greeting", "out_of_scope", "product_inquiry", "comparison_query",
     "procedure_question", "general_info"}

\* C11: ChichewaRAGChain.classify_query returns one of the six labels for
\* every response of the model: the response stripped and lower-cased when
\* that is one of the six, 'product_inquiry' for any other response and for
\* a model call that raises; answer_query routes on that value.
C11_ClassifySixLabels ==
    chain = "rag" =>
        \A i \in CallsOf("classify_query") :
            LET c == calls[i]
                word == Lower(Strip(c.reply))
            IN /\ c.ret \in SixLabels
               /\ (c.ok /\ word \in SixLabels) => c.ret = word
               /\ (~c.ok \/ word \notin SixLabels) => c.ret = "product_inquiry"
               /\ query_type = c.ret

\* the model answered with a seventh word
C11_Witness ==
    /\ chain = "rag"
    /\ pc = "done"
    /\ \E i \in CallsOf("classify_query") :
          /\ calls[i].ok
          /\ calls[i].reply = "contact_inquiry"
          /\ calls[i].ret = "product_inquiry"
    /\ result.query_type = "product_inquiry"

\* C13: Translator.detect_language returns only 'english' or 'chichewa':
\* 'chichewa' when the stripped, lower-cased response is that word, and
\* 'english' for every other response and for a model call that raises.
C13_DetectLanguageTwoValues ==
    \A i \in CallsOf("detect_language") :
        LET c == calls[i]
            word == Lower(Strip(c.reply))
        IN /\ c.ret \in {"english", "chichewa"}
           /\ (c.ok /\ word = "chichewa") <=> c.ret = "chichewa"
           /\ (~c.ok \/ word \notin {"english", "chichewa"}) => c.ret = "english"
           /\ detected_language = c.ret

\* the model answered with a sentence instead of one word
C13_Witness ==
    /\ pc = "done"
    /\ \E i \in CallsOf("detect_language") :
          /\ calls[i].ok
          /\ calls[i].reply = "Chichewa language"
          /\ calls[i].ret = "english"
    /\ result.detected_language = "english"

\* C12: StructuredPromptChain.classify_query classifies the same as the RAG
\* chain: for every response of the model, and for a model call that raises,
\* it returns the label ChichewaRAGChain.classify_query returns for it.
C12_SpeClassifiesAsRag ==
    chain = "spe" =>
        \A i \in CallsOf("classify_query") :
            LET c == calls[i] IN
            c.ret = classify_query(c.arg, [ok |-> c.ok, content |-> c.reply]).val

BaseKeys ==
    {"answer", "query_type", "sources", "english_query", "detected_language"}

MetadataKeys == {"english_answer", "retrieved_docs"}

\* C14: the dict ChichewaRAGChain.answer_query returns has exactly the keys
\* answer, query_type, sources, english_query and detected_language when
\* return_metadata is False, and english_answer and retrieved_docs besides
\* when it is True, whatever the classification of the query.
C14_MetadataKeys ==
    (chain = "rag" /\ pc = "done") =>
        DOMAIN result = IF return_metadata THEN BaseKeys \cup MetadataKeys
                        ELSE BaseKeys

\* C15: the result of ChichewaRAGChain.answer_query has an entry
\* 'query_intent' holding the aspect the query asks about, as the result of
\* StructuredPromptChain.answer_query has.
C15_RagResultHasIntent ==
    (chain = "rag" /\ pc = "done") =>
        /\ "query_intent" \in DOMAIN result
        /\ result.query_intent = detect_query_intent(english_query)

\* C16: every similarity_search of a ChichewaRAGChain is made with k equal to
\* the retrieval_k of the construction (5 by default), whatever the query
\* and whatever was asked before; retrieve_documents returns one entry per
\* document the store returned, in the store's order, and the empty list
\* when the search raises.
C16_FixedTopK ==
    chain = "rag" =>
        \A i \in CallsOf("similarity_search") :
            LET c == calls[i] IN
            /\ c.arg.k = retrieval_k
            /\ c.arg.k = 5
            /\ c.arg.query = english_query
            /\ c.ok => /\ Len(c.ret) = Len(c.reply)
                       /\ \A j \in 1..Len(c.reply) :
                             c.ret[j].content = c.reply[j].page_content
            /\ ~c.ok => c.ret = <<>>
            /\ retrieved_docs = c.ret

\* the store returned two chunks, one of them without a source
C16_Witness ==
    /\ chain = "rag"
    /\ pc = "done"
    /\ \E i \in CallsOf("similarity_search") :
          /\ calls[i].ok
          /\ calls[i].arg.k = 5
          /\ Len(calls[i].reply) = 2
          /\ Len(calls[i].ret) = 2
          /\ calls[i].ret[2].source = "Unknown"

RECURSIVE AllIn(_, _, _)
\* every one of items[1..n] occurs in text
AllIn(text, items, n) ==
    n = 0 \/ (Contains(text, items[n]) /\ AllIn(text, items, n - 1))

\* the amounts of a product's fees
Amounts(fees) == [i \in 1..Len(fees) |-> fees[i][2]]

\* text holds the whole of a product: its name and all its benefits,
\* requirements, fees and features
HoldsProduct(text, product) ==
    /\ Contains(text, product.name)
    /\ AllIn(text, product.benefits, Len(product.benefits))
    /\ AllIn(text, product.requirements, Len(product.requirements))
    /\ AllIn(text, Amounts(product.fees), Len(product.fees))
    /\ AllIn(text, product.features, Len(product.features))

\* text holds the general_info entries
HoldsGeneralInfo(text) ==
    \A k \in DOMAIN knowledge_base.general_info :
        Contains(text, knowledge_base.general_info[k])

\* C17: the structured-prompt chain puts the full knowledge base in the
\* prompt: the context StructuredPromptChain.answer_query passes to
\* generate_answer holds every product of the knowledge base with its
\* benefits, requirements, fees and features, and the general_info entries.
C17_FullKnowledgeBaseInPrompt ==
    chain = "spe" =>
        \A i \in CallsOf("generate_answer") :
            /\ \A k \in DOMAIN knowledge_base.products :
                  HoldsProduct(calls[i].arg.context, knowledge_base.products[k])
            /\ HoldsGeneralInfo(calls[i].arg.context)

Sections == <<"benefits", "requirements", "fees", "features">>

Header(section) ==
    CASE section = "benefits"     -> "BENEFITS:\n"
      [] section = "requirements" -> "REQUIREMENTS:\n"
      [] section = "fees"         -> "FEES:\n"
      [] section = "features"     -> "FEATURES:\n"

\* what a section of a product lists; a fee is listed as ": amount"
\* at the end of its line
SectionItems(product, section) ==
    IF section = "fees"
    THEN [i \in 1..Len(product.fees) |-> ": " \o product.fees[i][2] \o "\n"]
    ELSE product[section]

RECURSIVE NoneIn(_, _, _)
\* none of items[1..n] occurs in text
NoneIn(text, items, n) ==
    n = 0 \/ (~Contains(text, items[n]) /\ NoneIn(text, items, n - 1))

\* the section and its items are in text (present), or neither is
SectionIs(text, product, section, present) ==
    LET items == SectionItems(product, section) IN
    IF present
    THEN Contains(text, Header(section)) /\ AllIn(text, items, Len(items))
    ELSE ~Contains(text, Header(section)) /\ NoneIn(text, items, Len(items))

\* the entry of a product in the list of all products
Listed(text, product, with_benefits) ==
    /\ Contains(text, "* " \o product.name \o " (" \o product.category \o ")\n"
                      \o "  Target: " \o product.target_audience \o "\n")
    /\ Contains(text, "  Key Benefits: " \o product.benefits[1] \o ", "
                      \o product.benefits[2] \o ", " \o product.benefits[3]
                      \o "\n") <=> with_benefits
    /\ \A j \in 4..Len(product.benefits) : ~Contains(text, product.benefits[j])

\* C18: for a product key of the knowledge base build_structured_context
\* writes the product header and, for an intent among benefits,
\* requirements, fees and features, the section of that intent and none of
\* the other three; for intent 'general' all four sections; for no product
\* key it lists every product, with 'Key Benefits' (the first 3 benefits)
\* only when the intent is benefits or general.
C18_ContextSections ==
    (chain = "spe" /\ pc = "spe_generate_answer") =>
        LET products == knowledge_base.products IN
        IF product_key \in DOMAIN products
        THEN LET product == products[product_key] IN
             /\ StartsWith(structured_context,
                           "PRODUCT: " \o product.name \o "\n"
                           \o "CATEGORY: " \o product.category \o "\n")
             /\ \A i \in 1..Len(Sections) :
                   SectionIs(structured_context, product, Sections[i],
                             query_intent \in {Sections[i], "general"})
        ELSE /\ StartsWith(structured_context, "AVAILABLE BANKING PRODUCTS:\n")
             /\ \A k \in DOMAIN products :
                   /\ Listed(structured_context, products[k],
                             query_intent \in {"benefits", "general"})
                   /\ ~Contains(structured_context, Header("benefits"))
                   /\ \A i \in 2..Len(Sections) :
                         SectionIs(structured_context, products[k],
                                   Sections[i], FALSE)

\* a query about the requirements of one product: its context has the
\* REQUIREMENTS section alone
C18_Witness ==
    /\ chain = "spe"
    /\ pc = "spe_generate_answer"
    /\ product_key = "mlimi"
    /\ query_intent = "requirements"
    /\ Contains(structured_context, "REQUIREMENTS:\n1. Valid national ID\n")
    /\ ~Contains(structured_context, "BENEFITS:")
    /\ ~Contains(structured_context, "FEES:")
    /\ ~Contains(structured_context, "FEATURES:")

\* the keyword groups of detect_query_intent, in the order of its tests
IntentGroups ==
    << [intent |-> "benefits",
        words  |-> {"benefit", "advantage", "ubwino", "why choose",
                    "what do i get"}],
       [intent |-> "requirements",
        words  |-> {"requirement", "eligibility", "zofunikira", "qualify",
                    "need to", "criteria"}],
       [intent |-> "fees",
        words  |-> {"fee", "cost", "charge", "price", "mtengo", "phindu",
                    "interest rate", "how much"}],
       [intent |-> "features",
        words  |-> {"how does", "how to use", "functionality", "works",
                    "feature"}] >>

\* the groups of which some keyword occurs in the lower-cased query
Matching(query) ==
    {g \in 1..Len(IntentGroups) :
        \E w \in IntentGroups[g].words : Contains(Lower(query), w)}

\* the English queries of TEST_QUERIES with the intent the test expects
TestExpectations ==
    {[query_en |-> "Benefits of amayi angathe account",
      expected_intent |-> "benefits"],
     [query_en |-> "Requirements for mlimi loan",
      expected_intent |-> "requirements"],
     [query_en |-> "Cost of amayi angathe account",
      expected_intent |-> "fees"]}

\* C19: detect_query_intent returns one of benefits, requirements, fees,
\* features, general: the intent of the first group, in the order benefits,
\* requirements, fees, features, of which a keyword occurs in the
\* lower-cased English query, and 'general' when none does; the English
\* queries of the comparison test get the intent the test expects.
C19_IntentPriority ==
    /\ (chain = "spe" /\ pc = "spe_generate_answer") =>
           LET matching == Matching(english_query) IN
           /\ query_intent \in
                 {"benefits", "requirements", "fees", "features", "general"}
           /\ query_intent = "general" <=> matching = {}
           /\ \A g \in 1..Len(IntentGroups) :
                 query_intent = IntentGroups[g].intent <=>
                     (g \in matching /\ \A h \in matching : g <= h)
           /\ \A t \in TestExpectations :
                 english_query = t.query_en => query_intent = t.expected_intent
    /\ (chain = "spe" /\ pc = "done") => result.query_intent = query_intent

\* a query that names the fees before the requirements
C19_Witness ==
    /\ chain = "spe"
    /\ pc = "done"
    /\ english_query = "What are the fees and requirements?"
    /\ Matching(english_query) = {2, 3}
    /\ result.query_intent = "requirements"

-----------------------------------------------------------------------------
(* Properties of the rate limiter over time *)

\* C20: once session_count has reached MAX_QUERIES_PER_SESSION, every step
\* of the session is either clear_chat_history or leaves session_count as
\* it is, invokes nothing, and shows no rate-limit message but the
\* session-limit one: every prompt is refused with the session-limit
\* message, however much time has passed and whether or not the hourly
\* limit is reached too.
C20_SessionLimitPersists ==
    [][session_count >= MAX_QUERIES_PER_SESSION =>
          \/ /\ session_count' = 0
             /\ hourly_queries' = <<>>
             /\ messages' = 0
          \/ /\ session_count' = session_count
             /\ invocations' = invocations
             /\ app_pc' # "answering"
             /\ limit_message \in {"", SessionLimitMessage}
             /\ limit_message' \in {limit_message, SessionLimitMessage}]_vars

\* a prompt refused with the session-limit message when every recorded
\* query is more than a window old
C20_Witness ==
    /\ session_count = MAX_QUERIES_PER_SESSION
    /\ limit_message = SessionLimitMessage
    /\ Len(hourly_queries) = MAX_QUERIES_PER_HOUR
    /\ \A i \in 1..Len(recorded) : recorded[i] <= now - RATE_LIMIT_WINDOW

\* the oldest query of hourly_queries was recorded more than a window ago
OldestExpired ==
    \E i \in 1..Len(hourly_queries) :
        /\ \A j \in 1..Len(hourly_queries) : hourly_queries[i] <= hourly_queries[j]
        /\ now > hourly_queries[i] + RATE_LIMIT_WINDOW

====
